---- MODULE Spec2Model ----
(***************************************************************************)
(* Model of the case-insensitive path resolver of insensitive.cpp:         *)
(* Wrapper::replace_filename_case_insensitive, its cache and the raw       *)
(* filesystem primitives (stat, opendir, readdir) it consumes.             *)
(*                                                                         *)
(* A path is a C string: a sequence of one-character strings.  The null    *)
(* pointer is the value Null.  The filesystem is a tree of nodes; a node   *)
(* is the sequence of the entry names from the root down to it.            *)
(***************************************************************************)
EXTENDS Integers, Sequences, FiniteSets, TLC

VARIABLES files,      \* the nodes that exist on disk (prefix closed, root included)
          noopen,     \* the nodes opendir fails on (regular files, unreadable directories)
          reversed,   \* which of the two enumeration orders readdir yields
          cache,      \* Wrapper::cache, a function from path string to path string
          last,       \* the last completed sequential call: argument, result, accesses
          ncalls,     \* number of sequential calls made so far
          mutex,      \* Wrapper::cache_mutex: 0 when free, else the thread holding it
          stack,      \* per thread: the frames of its nested resolve calls
          result,     \* per thread: the value its outermost call returned
          request,    \* the path the concurrent callers pass
          wrapper,    \* the static pointer of Wrapper::get: 0 for nullptr, else an instance
          instances,  \* the cache of each Wrapper constructed by Wrapper::get, in order
          getter,     \* per thread: its position in Wrapper::get and the instance it got
          nchanges    \* number of changes made to the filesystem between calls

vars == <<files, noopen, reversed, cache, last, ncalls, mutex, stack, result, request,
          wrapper, instances, getter, nchanges>>

fsvars == <<files, noopen, reversed>>

getvars == <<wrapper, instances, getter>>

----------------------------------------------------------------------------
(* Bounds of the model *)

\* number of leaf paths the filesystem is generated from
MaxFiles == 2

\* number of resolve calls made one after the other in one behaviour
MaxCalls == 2

\* number of threads calling resolve at the same time
NThreads == 2

\* number of nested resolve frames a thread's stack has room for
MaxStack == 5

\* filesystem changes made between the calls of a run
MaxChanges == 1

----------------------------------------------------------------------------
(* C strings *)

Null == <<"NULL">>

Slash == "/"

UpperChars == <<"A","B","C","D","E","F","G","H","I","J","K","L","M",
                "N","O","P","Q","R","S","T","U","V","W","X","Y","Z">>

LowerChars == <<"a","b","c","d","e","f","g","h","i","j","k","l","m",
                "n","o","p","q","r","s","t","u","v","w","x","y","z">>

\* the characters paths are written with
Chars == { UpperChars[i] : i \in 1..Len(UpperChars) }
         \cup { LowerChars[i] : i \in 1..Len(LowerChars) } \cup { "/", "." }

ToLowerTable ==
    [ch \in Chars |->
        IF \E i \in 1..Len(UpperChars) : UpperChars[i] = ch
        THEN LowerChars[CHOOSE i \in 1..Len(UpperChars) : UpperChars[i] = ch]
        ELSE ch]

\* ::tolower on one character (C locale)
tolower(ch) == ToLowerTable[ch]

\* std::transform(s.begin(), s.end(), s.begin(), ::tolower)
transform_tolower(s) == [i \in 1..Len(s) |-> tolower(s[i])]

\* strncmp(path, prefix, prefix.length()) == 0
strncmp_eq(path, prefix) ==
    /\ Len(path) >= Len(prefix)
    /\ SubSeq(path, 1, Len(prefix)) = prefix

----------------------------------------------------------------------------
(* std::filesystem::path on a POSIX system *)

\* index of the last separator of s, 0 when there is none
LastSlash[s \in Seq(Chars)] ==
    LET seps == { i \in 1..Len(s) : s[i] = Slash }
    IN  IF seps = {} THEN 0 ELSE CHOOSE i \in seps : \A j \in seps : j <= i

\* fs::path::empty
empty(s) == Len(s) = 0

\* p == p.root_path(): the path holds a root directory and nothing else
is_root_path(s) == Len(s) > 0 /\ \A i \in 1..Len(s) : s[i] = Slash

\* fs::path::filename: what follows the last separator
filename(s) == SubSeq(s, LastSlash[s] + 1, Len(s))

\* drop the separators at the end of s, keeping a lone root directory
StripSlashes[s \in Seq(Chars)] ==
    IF Len(s) > 1 /\ s[Len(s)] = Slash THEN StripSlashes[SubSeq(s, 1, Len(s) - 1)]
    ELSE s

\* fs::path::parent_path: the path without its last component
parent_path(s) ==
    IF empty(s) \/ is_root_path(s) THEN s
    ELSE StripSlashes[SubSeq(s, 1, LastSlash[s])]

\* fs::path operator/ : append a component with a separator where needed
path_append(lhs, rhs) ==
    IF Len(rhs) > 0 /\ rhs[1] = Slash THEN rhs
    ELSE IF Len(lhs) > 0 /\ lhs[Len(lhs)] # Slash THEN lhs \o <<Slash>> \o rhs
    ELSE lhs \o rhs

\* the components of a path string, separators dropped
Components[s \in Seq(Chars)] ==
    IF Len(s) = 0 THEN <<>>
    ELSE LET k == LastSlash[s]
         IN  IF k = Len(s) THEN Components[SubSeq(s, 1, k - 1)]
             ELSE IF k = 0 THEN <<s>>
             ELSE Append(Components[SubSeq(s, 1, k - 1)], SubSeq(s, k + 1, Len(s)))

----------------------------------------------------------------------------
(* The filesystem and the raw (non-intercepted) primitives *)

Root == <<>>

Dot == <<".">>

DotDot == <<".", ".">>

\* entry names
n_a == <<"a">>

n_A == <<"A">>

n_b == <<"b">>

n_B == <<"B">>

n_c == <<"c">>

n_C == <<"C">>

n_dev == <<"d", "e", "v">>

\* the order readdir yields entries in (or its reverse): filesystem defined
NameOrder == << n_a, n_A, n_dev, n_b, n_B, n_c, n_C >>

\* the paths a filesystem of the model is generated from
DiskLeaves == { <<n_a, n_b>>, <<n_a, n_B>>, <<n_A, n_b>>,
                <<n_a, n_B, n_c>>, <<n_a, n_b, n_C>>, <<n_dev, n_b>> }

\* a set of paths together with all their ancestors
Closure(S) == UNION { { SubSeq(n, 1, k) : k \in 0..Len(n) } : n \in S } \cup { Root }

\* the sets of at most k of these paths
RECURSIVE PickSets(_)
PickSets(k) ==
    IF k = 0 THEN { {} }
    ELSE PickSets(k - 1) \cup { S \cup {l} : S \in PickSets(k - 1), l \in DiskLeaves }

Filesystems == { Closure(S) : S \in PickSets(MaxFiles) }

\* the working directory of the process, where relative paths start
cwd == Root

\* follow the components of a path from a node: "." stays, ".." goes up
WalkFrom[node \in Seq(Seq(Chars)), comps \in Seq(Seq(Chars))] ==
    IF Len(comps) = 0 THEN [ok |-> TRUE, node |-> node]
    ELSE IF Head(comps) = Dot THEN WalkFrom[node, Tail(comps)]
    ELSE IF Head(comps) = DotDot
         THEN WalkFrom[IF Len(node) = 0 THEN node ELSE SubSeq(node, 1, Len(node) - 1),
                       Tail(comps)]
    ELSE IF Append(node, Head(comps)) \in files
         THEN WalkFrom[Append(node, Head(comps)), Tail(comps)]
    ELSE [ok |-> FALSE, node |-> Root]

\* the node a path string names ("" names nothing: ENOENT)
Walk(s) ==
    IF Len(s) = 0 THEN [ok |-> FALSE, node |-> Root]
    ELSE WalkFrom[IF s[1] = Slash THEN Root ELSE cwd, Components[s]]

\* stat_real(path, &st) == 0
file_exists_real(s) == Walk(s).ok

\* opendir that opens the working directory for the empty path
opendir_real_EmptyIsCwd(s) ==
    IF Len(s) = 0 THEN cwd \notin noopen
    ELSE LET w == Walk(s) IN w.ok /\ w.node \notin noopen

\* opendir_real(path) != NULL
opendir_real(s) == LET w == Walk(s) IN w.ok /\ w.node \notin noopen

Reverse(q) == [i \in 1..Len(q) |-> q[Len(q) + 1 - i]]

\* the d_name values successive readdir calls yield on the directory
readdir(s) ==
    LET node == Walk(s).node
        IsEntry(nm) == Append(node, nm) \in files
    IN  <<Dot, DotDot>> \o SelectSeq(IF reversed THEN Reverse(NameOrder) ELSE NameOrder,
                                     IsEntry)

----------------------------------------------------------------------------
(* Wrapper: exclusion filter, directory scan, resolver *)

excluded_prefixes == { <<"/","d","e","v","/">>,
                       <<"/","p","r","o","c","/">>,
                       <<"/","s","y","s","/">> }

\* should_exclude_path with the first prefix of the list left out
should_exclude_path_NoDev(path) ==
    /\ path # Null
    /\ \/ strncmp_eq(path, <<"/","p","r","o","c","/">>)
       \/ strncmp_eq(path, <<"/","s","y","s","/">>)

\* Wrapper::should_exclude_path
should_exclude_path(path) ==
    /\ path # Null
    /\ \E prefix \in excluded_prefixes : strncmp_eq(path, prefix)

\* the readdir loop comparing the entry as spelled, not lower-cased
ScanMatch_CaseSensitive(entries, lower_filename) ==
    LET Hit(i) == /\ entries[i] # Dot
                  /\ entries[i] # DotDot
                  /\ entries[i] = lower_filename
    IN  IF \E i \in 1..Len(entries) : Hit(i)
        THEN CHOOSE i \in 1..Len(entries) : Hit(i) /\ \A j \in 1..(i-1) : ~Hit(j)
        ELSE 0

\* the readdir loop without its break: the last matching entry wins
ScanMatch_NoBreak(entries, lower_filename) ==
    LET Hit(i) == /\ entries[i] # Dot
                  /\ entries[i] # DotDot
                  /\ transform_tolower(entries[i]) = lower_filename
    IN  IF \E i \in 1..Len(entries) : Hit(i)
        THEN CHOOSE i \in 1..Len(entries) : Hit(i) /\ \A j \in (i+1)..Len(entries) : ~Hit(j)
        ELSE 0

\* the readdir loop: index of the first entry that is not "." or ".." and
\* whose lower-cased name equals lower_filename, 0 when there is none
ScanMatch(entries, lower_filename) ==
    LET Hit(i) == /\ entries[i] # Dot
                  /\ entries[i] # DotDot
                  /\ transform_tolower(entries[i]) = lower_filename
    IN  IF \E i \in 1..Len(entries) : Hit(i)
        THEN CHOOSE i \in 1..Len(entries) : Hit(i) /\ \A j \in 1..(i-1) : ~Hit(j)
        ELSE 0

\* cache[key] = value
CachePut(c, key, value) ==
    [k \in (DOMAIN c) \cup {key} |-> IF k = key THEN value ELSE c[k]]

EmptyCache == [k \in {} |-> <<>>]

\* cache.find(p.string()) != cache.end()
CacheHas(c, key) == key \in DOMAIN c

\* what one call did: result, cache afterwards, the branch that returned,
\* the numbers of stat calls, opendir calls and cache critical sections,
\* and the depth of the recursion below it
Outcome(ret, c, how, nstat, nopen, ncache, depth) ==
    [ret |-> ret, cache |-> c, how |-> how,
     nstat |-> nstat, nopen |-> nopen, ncache |-> ncache, depth |-> depth]

\* the empty/root test that forgets the empty path
empty_or_root_RootOnly(path) == is_root_path(path)

\* p.empty() || p == p.root_path()
empty_or_root(path) == empty(path) \/ is_root_path(path)

\* the head of the resolver with the cache consulted before the exact-case stat
EntryBranch_CacheFirst(c, path) ==
    IF path = Null THEN [how |-> "null", nstat |-> 0, ncache |-> 0]
    ELSE IF should_exclude_path(path) THEN [how |-> "excluded", nstat |-> 0, ncache |-> 0]
    ELSE IF empty_or_root(path) THEN [how |-> "root", nstat |-> 0, ncache |-> 0]
    ELSE IF CacheHas(c, path) THEN [how |-> "hit", nstat |-> 0, ncache |-> 1]
    ELSE IF file_exists_real(path) THEN [how |-> "exact", nstat |-> 1, ncache |-> 1]
    ELSE [how |-> "search", nstat |-> 1, ncache |-> 1]

\* the head of the resolver with the exact-case stat made before the
\* empty/root test
EntryBranch_StatFirst(c, path) ==
    IF path = Null THEN [how |-> "null", nstat |-> 0, ncache |-> 0]
    ELSE IF should_exclude_path(path) THEN [how |-> "excluded", nstat |-> 0, ncache |-> 0]
    ELSE IF file_exists_real(path) THEN [how |-> "exact", nstat |-> 1, ncache |-> 0]
    ELSE IF empty_or_root(path) THEN [how |-> "root", nstat |-> 1, ncache |-> 0]
    ELSE IF CacheHas(c, path) THEN [how |-> "hit", nstat |-> 1, ncache |-> 1]
    ELSE [how |-> "search", nstat |-> 1, ncache |-> 1]

\* the checks at the head of the resolver, in the order the code makes them:
\* the branch taken and the stat calls and cache lookups made to get there
EntryBranch(c, path) ==
    IF path = Null THEN [how |-> "null", nstat |-> 0, ncache |-> 0]
    ELSE IF should_exclude_path(path) THEN [how |-> "excluded", nstat |-> 0, ncache |-> 0]
    ELSE IF empty_or_root(path) THEN [how |-> "root", nstat |-> 0, ncache |-> 0]
    ELSE IF file_exists_real(path) THEN [how |-> "exact", nstat |-> 1, ncache |-> 0]
    ELSE IF CacheHas(c, path) THEN [how |-> "hit", nstat |-> 1, ncache |-> 1]
    ELSE [how |-> "search", nstat |-> 1, ncache |-> 1]

\* the parent step left out: the parent is never resolved recursively
NeedsParent_Never(path) == FALSE

\* whether the parent is resolved recursively
NeedsParent(path) == ~file_exists_real(parent_path(path))

\* the parent step that never takes over the resolved parent
RepairedPath_Never(path, parent_new) == path

\* p after the parent step: new_parent / p.filename() when the recursively
\* resolved parent exists, the path as given otherwise
RepairedPath(path, parent_new) ==
    IF parent_new # Null /\ file_exists_real(parent_new)
    THEN path_append(parent_new, filename(path))
    ELSE path

\* the matched entry appended to p itself instead of to its parent
NewPath_OnPath(p, direntry) == path_append(p, direntry)

\* new_path = p.parent_path() / direntry
NewPath(p, direntry) == path_append(parent_path(p), direntry)

\* the entry keyed by the lower-cased form of the path
CacheKey_Folded(path, p) == transform_tolower(p)

\* the key of the entry the scan inserts: cache[p.string()]
CacheKey(path, p) == p

\* the lower-cased form of the resolved path stored as the value
CacheValue_Folded(path, p, new_path) == transform_tolower(new_path)

\* the value of the entry the scan inserts: new_path.string()
CacheValue(path, p, new_path) == new_path

\* the parent-repaired path returned when the scan ends without a match
NoMatchResult_Repaired(path, p) == p

\* path_new when the scan ends without a match: clone(path)
NoMatchResult(path, p) == path

\* Wrapper::replace_filename_case_insensitive run by one thread, start to end
RECURSIVE replace_filename_case_insensitive(_, _)
replace_filename_case_insensitive(c, path) ==
    LET e == EntryBranch(c, path)
    IN
    IF e.how = "hit" THEN Outcome(c[path], c, e.how, e.nstat, 0, e.ncache, 0)
    ELSE IF e.how # "search" THEN Outcome(path, c, e.how, e.nstat, 0, e.ncache, 0)
    ELSE
      LET lower_filename == transform_tolower(filename(path))
          recurse == NeedsParent(path)
          rec == IF recurse THEN replace_filename_case_insensitive(c, parent_path(path))
                 ELSE Outcome(Null, c, "none", 0, 0, 0, 0)
          p == IF recurse THEN RepairedPath(path, rec.ret) ELSE path
          nstat == e.nstat + 1 + rec.nstat + (IF recurse /\ rec.ret # Null THEN 1 ELSE 0)
          depth == IF recurse THEN 1 + rec.depth ELSE 0
          opened == opendir_real(parent_path(p))
          entries == readdir(parent_path(p))
          m == IF opened THEN ScanMatch(entries, lower_filename) ELSE 0
          new_path == NewPath(p, entries[m])
      IN  IF ~opened
          THEN Outcome(NoMatchResult(path, p), rec.cache, "openfail",
                       nstat, rec.nopen + 1, e.ncache + rec.ncache, depth)
          ELSE IF m = 0
          THEN Outcome(NoMatchResult(path, p), rec.cache, "nomatch",
                       nstat, rec.nopen + 1, e.ncache + rec.ncache, depth)
          ELSE Outcome(new_path,
                       CachePut(rec.cache, CacheKey(path, p), CacheValue(path, p, new_path)),
                       "match", nstat, rec.nopen + 1, e.ncache + rec.ncache + 1, depth)

----------------------------------------------------------------------------
(* The paths callers ask for *)

RECURSIVE AbsPath(_)
AbsPath(node) ==
    IF Len(node) = 0 THEN <<>>
    ELSE AbsPath(SubSeq(node, 1, Len(node) - 1)) \o <<Slash>> \o node[Len(node)]

RelPath(node) == Tail(AbsPath(node))

\* requested absolute paths: every spelling of up to three components
AbsRequests ==
    { AbsPath(<<x>>) : x \in {n_a, n_A} }
    \cup { AbsPath(<<x, y>>) : x \in {n_a, n_A}, y \in {n_b, n_B} }
    \cup { AbsPath(<<x, y, z>>) : x \in {n_a, n_A}, y \in {n_b, n_B}, z \in {n_c, n_C} }

\* requested relative paths
RelRequests ==
    { RelPath(<<x>>) : x \in {n_a, n_A} }
    \cup { RelPath(<<x, y>>) : x \in {n_a, n_A}, y \in {n_b, n_B} }

\* the null pointer, the empty path, the root, a path that ends in ".", paths
\* under the excluded prefixes
ExtraRequests == { <<>>, <<"/">>, Null,
                   <<"/","A","/",".">>,
                   <<"/","s","y","s","/","b">>,
                   <<"/","p","r","o","c","/","B">>,
                   <<"/","d","e","v","/","b">>,
                   <<"/","d","e","v","/","B">>,
                   <<"/","D","e","v","/","B">> }

Requests == AbsRequests \cup RelRequests \cup ExtraRequests

----------------------------------------------------------------------------
(* Calls made one after the other by a single thread, filesystem unchanged *)

NoCall == [arg |-> Null, ret |-> Null, how |-> "init", nstat |-> 0, nopen |-> 0,
           ncache |-> 0, depth |-> 0, again |-> FALSE, from |-> Null]

InitFs ==
    /\ files \in Filesystems
    /\ noopen \in { {} } \cup { {n} : n \in { m \in files : Len(m) = 1 } }
    /\ reversed \in BOOLEAN

\* Wrapper::get and the filesystem changes at rest: the calls are made on the
\* one Wrapper that exists, on a filesystem that stays as it is
AtRest ==
    /\ wrapper = 0
    /\ instances = <<>>
    /\ getter = <<>>
    /\ nchanges = 0

Init ==
    /\ InitFs
    /\ AtRest
    /\ cache = EmptyCache
    /\ last = NoCall
    /\ ncalls = 0
    /\ mutex = 0
    /\ stack = <<>>
    /\ result = <<>>
    /\ request = Null

\* one intercepted call: case_adjusted_path(func, path), run to its end
DoCall(path, again) ==
    /\ LET o == replace_filename_case_insensitive(cache, path)
       IN  /\ cache' = o.cache
           /\ last' = [arg |-> path, ret |-> o.ret, how |-> o.how, nstat |-> o.nstat,
                       nopen |-> o.nopen, ncache |-> o.ncache, depth |-> o.depth,
                       again |-> again, from |-> IF again THEN last.arg ELSE path]
    /\ UNCHANGED <<getvars, nchanges, fsvars, mutex, stack, result, request>>

\* a caller resolves some path
Resolve ==
    /\ ncalls < MaxCalls
    /\ ~last.again
    /\ ncalls' = ncalls + 1
    /\ \E path \in Requests : DoCall(path, FALSE)

\* a caller resolves the path the previous call returned
ResolveAgain ==
    /\ last.how # "init"
    /\ ~last.again
    /\ UNCHANGED ncalls
    /\ DoCall(last.ret, TRUE)

Next == Resolve \/ ResolveAgain

Spec == Init /\ [][Next]_vars

----------------------------------------------------------------------------
(* Calls made at the same time by several threads, one step at a time *)

Threads == 1..NThreads

Pending == <<"PENDING">>

\* the filesystems and the paths of the concurrent runs
ThreadFilesystems == { Closure({ <<n_a, n_B>> }),
                       Closure({ <<n_a, n_b>>, <<n_a, n_B>> }) }

ThreadRequests == { AbsPath(<<n_A, n_b>>), AbsPath(<<n_a, n_b>>),
                    RelPath(<<n_A, n_b>>), Null }

\* the locals of one activation of replace_filename_case_insensitive
Frame(path) == [pc |-> "start", path |-> path, p |-> path,
                parent_new |-> Null, path_new |-> path]

InitThreads ==
    /\ AtRest
    /\ files \in ThreadFilesystems
    /\ noopen = {}
    /\ reversed \in BOOLEAN
    /\ cache = EmptyCache
    /\ last = NoCall
    /\ ncalls = 0
    /\ mutex = 0
    /\ request \in ThreadRequests
    /\ stack = [t \in Threads |-> << Frame(request) >>]
    /\ result = [t \in Threads |-> Pending]

Top(t) == stack[t][Len(stack[t])]

Running(t) == Len(stack[t]) > 0

At(t, pc) == Running(t) /\ Top(t).pc = pc

\* the stack of t with fields of its top frame replaced
WithTop(t, f) == [stack EXCEPT ![t] = [@ EXCEPT ![Len(@)] = f]]

\* return ret from the top frame of t: to the caller's parent_path local, or
\* out of the outermost call
Return(t, ret) ==
    IF Len(stack[t]) = 1
    THEN /\ stack' = [stack EXCEPT ![t] = <<>>]
         /\ result' = [result EXCEPT ![t] = ret]
    ELSE /\ stack' = [stack EXCEPT ![t] =
                        [SubSeq(@, 1, Len(@) - 1) EXCEPT ![Len(@) - 1] =
                            [@ EXCEPT !.pc = "after_rec", !.parent_new = ret]]]
         /\ UNCHANGED result

\* the null, exclusion and empty/root tests
Start(t) ==
    /\ At(t, "start")
    /\ IF \/ Top(t).path = Null
          \/ should_exclude_path(Top(t).path)
          \/ empty_or_root(Top(t).path)
       THEN Return(t, Top(t).path)
       ELSE /\ stack' = WithTop(t, [Top(t) EXCEPT !.pc = "stat"])
            /\ UNCHANGED result
    /\ UNCHANGED <<getvars, nchanges, fsvars, cache, last, ncalls, mutex, request>>

\* file_exists_real(path): the exact-case fast path
Stat(t) ==
    /\ At(t, "stat")
    /\ IF file_exists_real(Top(t).path)
       THEN Return(t, Top(t).path)
       ELSE /\ stack' = WithTop(t, [Top(t) EXCEPT !.pc = "lock"])
            /\ UNCHANGED result
    /\ UNCHANGED <<getvars, nchanges, fsvars, cache, last, ncalls, mutex, request>>

\* the lookup entered without taking the mutex
Lock_NotTaken(t) ==
    /\ At(t, "lock")
    /\ stack' = WithTop(t, [Top(t) EXCEPT !.pc = "find"])
    /\ UNCHANGED <<getvars, nchanges, fsvars, cache, last, ncalls, mutex, result, request>>

\* std::lock_guard lock(cache_mutex) before the lookup
Lock(t) ==
    /\ At(t, "lock")
    /\ mutex = 0
    /\ mutex' = t
    /\ stack' = WithTop(t, [Top(t) EXCEPT !.pc = "find"])
    /\ UNCHANGED <<getvars, nchanges, fsvars, cache, last, ncalls, result, request>>

\* the lookup with its guard declared in the scope of the function: on a miss
\* the mutex stays held
Find_GuardKept(t) ==
    /\ At(t, "find")
    /\ IF CacheHas(cache, Top(t).path)
       THEN /\ Return(t, cache[Top(t).path])
            /\ mutex' = 0
       ELSE /\ stack' = WithTop(t, [Top(t) EXCEPT !.pc = "parent"])
            /\ UNCHANGED <<result, mutex>>
    /\ UNCHANGED <<getvars, nchanges, fsvars, cache, last, ncalls, request>>

\* cache.find(p.string()); the guard is released on leaving the block
Find(t) ==
    /\ At(t, "find")
    /\ IF CacheHas(cache, Top(t).path)
       THEN Return(t, cache[Top(t).path])
       ELSE /\ stack' = WithTop(t, [Top(t) EXCEPT !.pc = "parent"])
            /\ UNCHANGED result
    /\ mutex' = 0
    /\ UNCHANGED <<getvars, nchanges, fsvars, cache, last, ncalls, request>>

\* the parent exists: go on to the scan
ParentExists(t) ==
    /\ At(t, "parent")
    /\ ~NeedsParent(Top(t).path)
    /\ stack' = WithTop(t, [Top(t) EXCEPT !.pc = "opendir"])
    /\ UNCHANGED <<getvars, nchanges, fsvars, cache, last, ncalls, mutex, result, request>>

\* the parent does not exist: resolve it by a nested call
Recurse(t) ==
    /\ At(t, "parent")
    /\ NeedsParent(Top(t).path)
    /\ Len(stack[t]) < MaxStack
    /\ stack' = [stack EXCEPT ![t] =
                    Append([@ EXCEPT ![Len(@)] = [@ EXCEPT !.pc = "wait"]],
                           Frame(parent_path(Top(t).path)))]
    /\ UNCHANGED <<getvars, nchanges, fsvars, cache, last, ncalls, mutex, result, request>>

\* back from the nested call: take over the resolved parent if it exists
AfterRecurse(t) ==
    /\ At(t, "after_rec")
    /\ stack' = WithTop(t, [Top(t) EXCEPT !.pc = "opendir",
                                          !.p = RepairedPath(Top(t).path, Top(t).parent_new)])
    /\ UNCHANGED <<getvars, nchanges, fsvars, cache, last, ncalls, mutex, result, request>>

\* opendir_real(p.parent_path())
Opendir(t) ==
    /\ At(t, "opendir")
    /\ IF opendir_real(parent_path(Top(t).p))
       THEN /\ stack' = WithTop(t, [Top(t) EXCEPT !.pc = "scan"])
            /\ UNCHANGED result
       ELSE Return(t, NoMatchResult(Top(t).path, Top(t).p))
    /\ UNCHANGED <<getvars, nchanges, fsvars, cache, last, ncalls, mutex, request>>

\* the readdir loop up to the first match, closedir when there is none
Scan(t) ==
    /\ At(t, "scan")
    /\ LET entries == readdir(parent_path(Top(t).p))
           m == ScanMatch(entries, transform_tolower(filename(Top(t).path)))
       IN  IF m = 0
           THEN Return(t, NoMatchResult(Top(t).path, Top(t).p))
           ELSE /\ stack' = WithTop(t, [Top(t) EXCEPT !.pc = "lock_put",
                                          !.path_new = NewPath(Top(t).p, entries[m])])
                /\ UNCHANGED result
    /\ UNCHANGED <<getvars, nchanges, fsvars, cache, last, ncalls, mutex, request>>

\* std::lock_guard lock(cache_mutex) before the insert
LockPut(t) ==
    /\ At(t, "lock_put")
    /\ mutex = 0
    /\ mutex' = t
    /\ stack' = WithTop(t, [Top(t) EXCEPT !.pc = "put"])
    /\ UNCHANGED <<getvars, nchanges, fsvars, cache, last, ncalls, result, request>>

\* cache[p.string()] = new_path.string(); break; closedir; return path_new
Put(t) ==
    /\ At(t, "put")
    /\ cache' = CachePut(cache, CacheKey(Top(t).path, Top(t).p),
                         CacheValue(Top(t).path, Top(t).p, Top(t).path_new))
    /\ mutex' = 0
    /\ Return(t, Top(t).path_new)
    /\ UNCHANGED <<getvars, nchanges, fsvars, last, ncalls, request>>

Step(t) ==
    \/ Start(t)
    \/ Stat(t)
    \/ Lock(t)
    \/ Find(t)
    \/ ParentExists(t)
    \/ Recurse(t)
    \/ AfterRecurse(t)
    \/ Opendir(t)
    \/ Scan(t)
    \/ LockPut(t)
    \/ Put(t)

NextThreads == \E t \in Threads : Step(t)

\* every thread that can take a step eventually takes one
ThreadSpec ==
    /\ InitThreads
    /\ [][NextThreads]_vars
    /\ \A t \in Threads : WF_vars(Step(t))

----------------------------------------------------------------------------
(* Calls made one after the other while the directory contents change *)

\* the node m after the entry n was renamed to nm: n itself and everything
\* below it moves, the rest stays
Renamed(m, n, nm) ==
    IF Len(m) >= Len(n) /\ SubSeq(m, 1, Len(n)) = n
    THEN [i \in 1..Len(m) |-> IF i = Len(n) THEN nm ELSE m[i]]
    ELSE m

\* another process renames an entry to a spelling that differs in letter
\* case, between two calls of the resolver; what stat_real, opendir_real and
\* readdir report changes with it, the cache does not
ChangeFs ==
    /\ nchanges < MaxChanges
    /\ last.how # "init"
    /\ ~last.again
    /\ ncalls < MaxCalls
    /\ \E n \in files \ {Root} :
       \E nm \in { NameOrder[i] : i \in 1..Len(NameOrder) } :
           /\ nm # n[Len(n)]
           /\ transform_tolower(nm) = transform_tolower(n[Len(n)])
           /\ Renamed(n, n, nm) \notin files
           /\ files' = { Renamed(m, n, nm) : m \in files }
           /\ noopen' = { Renamed(m, n, nm) : m \in noopen }
    /\ nchanges' = nchanges + 1
    /\ UNCHANGED <<getvars, reversed, cache, last, ncalls, mutex, stack, result, request>>

\* the runs with a changing filesystem start from the filesystems of the
\* concurrent runs
InitChanging ==
    /\ files \in ThreadFilesystems
    /\ noopen = {}
    /\ reversed \in BOOLEAN
    /\ AtRest
    /\ cache = EmptyCache
    /\ last = NoCall
    /\ ncalls = 0
    /\ mutex = 0
    /\ stack = <<>>
    /\ result = <<>>
    /\ request = Null

NextChanging == Resolve \/ ResolveAgain \/ ChangeFs

ChangingSpec == InitChanging /\ [][NextChanging]_vars

----------------------------------------------------------------------------
(* The first intercepted calls of the process: Wrapper::get, then the call *)

\* the position of a thread in CASE(func, path): Wrapper::get() followed by
\* case_adjusted_path on the instance it returned
Getter == [pc |-> "test", seen |-> 0, inst |-> 0]

InitGet ==
    /\ files \in ThreadFilesystems
    /\ noopen = {}
    /\ reversed \in BOOLEAN
    /\ cache = EmptyCache
    /\ last = NoCall
    /\ ncalls = 0
    /\ nchanges = 0
    /\ mutex = 0
    /\ stack = <<>>
    /\ request \in ThreadRequests
    /\ result = [t \in Threads |-> Pending]
    /\ wrapper = 0
    /\ instances = <<>>
    /\ getter = [t \in Threads |-> Getter]

\* if (!wrapper): the unsynchronised read of the static pointer
GetTest(t) ==
    /\ getter[t].pc = "test"
    /\ getter' = [getter EXCEPT ![t] = [@ EXCEPT !.seen = wrapper,
                                                  !.pc = IF wrapper = 0 THEN "new" ELSE "deref"]]
    /\ UNCHANGED <<fsvars, cache, last, ncalls, nchanges, mutex, stack, result, request,
                   wrapper, instances>>

\* wrapper = new Wrapper(): a Wrapper with an empty cache is constructed and
\* the static pointer is overwritten
GetNew(t) ==
    /\ getter[t].pc = "new"
    /\ instances' = Append(instances, EmptyCache)
    /\ wrapper' = Len(instances) + 1
    /\ getter' = [getter EXCEPT ![t] = [@ EXCEPT !.seen = Len(instances) + 1, !.pc = "deref"]]
    /\ UNCHANGED <<fsvars, cache, last, ncalls, nchanges, mutex, stack, result, request>>

\* return *wrapper: the pointer is read without synchronisation while other
\* threads may write it, so the thread gets the value it last held or the
\* value the pointer has now
GetDeref(t) ==
    /\ getter[t].pc = "deref"
    /\ \E w \in {getter[t].seen, wrapper} :
           getter' = [getter EXCEPT ![t] = [@ EXCEPT !.inst = w, !.pc = "call"]]
    /\ UNCHANGED <<fsvars, cache, last, ncalls, nchanges, mutex, stack, result, request,
                   wrapper, instances>>

\* case_adjusted_path(func, path) on the instance the thread got
GetCall(t) ==
    /\ getter[t].pc = "call"
    /\ LET o == replace_filename_case_insensitive(instances[getter[t].inst], request)
       IN  /\ instances' = [instances EXCEPT ![getter[t].inst] = o.cache]
           /\ result' = [result EXCEPT ![t] = o.ret]
    /\ getter' = [getter EXCEPT ![t] = [@ EXCEPT !.pc = "done"]]
    /\ UNCHANGED <<fsvars, cache, last, ncalls, nchanges, mutex, stack, request, wrapper>>

NextGet == \E t \in Threads : GetTest(t) \/ GetNew(t) \/ GetDeref(t) \/ GetCall(t)

GetSpec == InitGet /\ [][NextGet]_vars

----------------------------------------------------------------------------
(* Vocabulary of the properties *)

\* the path begins with /dev/, /proc/ or /sys/
UnderExcludedPrefix(path) ==
    /\ path # Null
    /\ \/ strncmp_eq(path, <<"/","d","e","v","/">>)
       \/ strncmp_eq(path, <<"/","p","r","o","c","/">>)
       \/ strncmp_eq(path, <<"/","s","y","s","/">>)

IsAbsolute(path) == Len(path) > 0 /\ path[1] = Slash

Names == { NameOrder[i] : i \in 1..Len(NameOrder) }

FoldSeq(comps) == [i \in 1..Len(comps) |-> transform_tolower(comps[i])]

\* the two paths are equal component by component under lower-casing
SameFold(x, y) ==
    /\ x # Null
    /\ y # Null
    /\ IsAbsolute(x) = IsAbsolute(y)
    /\ FoldSeq(Components[x]) = FoldSeq(Components[y])

\* the entries of a directory node whose lower-cased name equals that of nm
Candidates(node, nm) ==
    { e \in Names : Append(node, e) \in files
                    /\ transform_tolower(e) = transform_tolower(nm) }

\* a completed call is recorded
Called == last.how # "init"

\* a path the caller may legally pass that is neither excluded, empty nor root
Ordinary(path) ==
    /\ path # Null
    /\ ~UnderExcludedPrefix(path)
    /\ ~empty(path)
    /\ path # <<"/">>

----------------------------------------------------------------------------
(* C1 *)

\* C1: a non-excluded, non-empty, non-root path that exists exactly as given
\* is returned as given, without any cache critical section and without any
\* opendir, and the call leaves the cache as it was, also when the cache
\* holds an entry for the path.
C1_ExactPathUntouched ==
    [][ (Ordinary(last'.arg) /\ file_exists_real(last'.arg))
          => /\ last'.ret = last'.arg
             /\ last'.ncache = 0
             /\ last'.nopen = 0
             /\ cache' = cache ]_vars

\* an existing path was resolved while the cache held an entry for it
C1_Witness ==
    /\ Called
    /\ Ordinary(last.arg)
    /\ file_exists_real(last.arg)
    /\ CacheHas(cache, last.arg)
    /\ last.ret = last.arg

----------------------------------------------------------------------------
(* C2 *)

\* C2: a path that begins with /dev/, /proc/ or /sys/ is returned unchanged,
\* whether or not it exists and whatever the cache holds.
C2_ExcludedUnchanged ==
    (Called /\ UnderExcludedPrefix(last.arg)) => last.ret = last.arg

\* an excluded path that does not exist, in an existing directory that holds
\* a differently-cased entry, was resolved with a non-empty cache
C2_Witness ==
    /\ Called
    /\ UnderExcludedPrefix(last.arg)
    /\ ~file_exists_real(last.arg)
    /\ file_exists_real(parent_path(last.arg))
    /\ Candidates(Walk(parent_path(last.arg)).node, filename(last.arg)) # {}
    /\ cache # EmptyCache
    /\ last.ret = last.arg

----------------------------------------------------------------------------
(* C3 *)

\* the requested name is missing from an existing directory that holds
\* exactly one entry folding to the same lower-cased name
OneCandidateInParent(path) ==
    /\ path # Null
    /\ ~empty(path)
    /\ file_exists_real(parent_path(path))
    /\ ~file_exists_real(path)
    /\ Cardinality(Candidates(Walk(parent_path(path)).node, filename(path))) = 1

\* D/E for the one candidate E of the directory D of the path
ParentWithCandidate(path) ==
    path_append(parent_path(path),
                CHOOSE e \in Candidates(Walk(parent_path(path)).node, filename(path)) : TRUE)

\* C3 as claimed: for every existing directory D and name N with D/N missing
\* and exactly one entry E of D folding to the same name, resolve(D/N) = D/E.
C3_AsClaimed ==
    (Called /\ OneCandidateInParent(last.arg))
        => last.ret = ParentWithCandidate(last.arg)

\* C3 (amended): the same, for a D/N that does not begin with an excluded
\* prefix and a directory D that opendir can open, on an unchanging filesystem.
C3_SingleLevelRepair ==
    (/\ Called
     /\ OneCandidateInParent(last.arg)
     /\ ~UnderExcludedPrefix(last.arg)
     /\ opendir_real(parent_path(last.arg)))
        => last.ret = ParentWithCandidate(last.arg)

\* such a request was resolved by a directory scan to a different spelling
C3_Witness ==
    /\ Called
    /\ OneCandidateInParent(last.arg)
    /\ ~UnderExcludedPrefix(last.arg)
    /\ opendir_real(parent_path(last.arg))
    /\ last.how = "match"
    /\ last.ret = ParentWithCandidate(last.arg)
    /\ last.ret # last.arg

----------------------------------------------------------------------------
(* C4 *)

\* follow the components from a node, taking at each level the one entry
\* that folds to the component's lower-cased name; fails where a level has
\* no such entry or several
RECURSIVE TwinFrom(_, _)
TwinFrom(node, comps) ==
    IF Len(comps) = 0 THEN [ok |-> TRUE, node |-> node]
    ELSE LET cs == Candidates(node, Head(comps))
         IN  IF Cardinality(cs) = 1
             THEN TwinFrom(Append(node, CHOOSE e \in cs : TRUE), Tail(comps))
             ELSE [ok |-> FALSE, node |-> node]

Twin(path) == TwinFrom(IF IsAbsolute(path) THEN Root ELSE cwd, Components[path])

\* the path differs from an on-disk path in letter case only, each level
\* having exactly one candidate
HasUniqueTwin(path) ==
    /\ path # Null
    /\ Len(Components[path]) > 0
    /\ Twin(path).ok

\* the on-disk path, written absolute or relative as the request is
OnDiskSpelling(path) ==
    IF IsAbsolute(path) THEN AbsPath(Twin(path).node)
    ELSE RelPath(SubSeq(Twin(path).node, Len(cwd) + 1, Len(Twin(path).node)))

\* the levels at which the request is spelled differently from the disk
Mismatched(path) ==
    LET comps == Components[path]
        node == Twin(path).node
        base == Len(node) - Len(comps)
    IN  { k \in 1..Len(comps) : comps[k] # node[base + k] }

\* every on-disk directory from the parent of the first mismatched
\* component downward can be opened
ScannedDirsOpen(path) ==
    LET comps == Components[path]
        node == Twin(path).node
        base == Len(node) - Len(comps)
    IN  \A k \in 1..Len(comps) :
            (\E j \in Mismatched(path) : j <= k)
                => SubSeq(node, 1, base + k - 1) \notin noopen

\* C4 as claimed: a request that differs from an on-disk path only in the
\* letter case of any number of components, each level having exactly one
\* candidate, resolves to the on-disk path.
C4_AsClaimed ==
    (Called /\ HasUniqueTwin(last.arg)) => last.ret = OnDiskSpelling(last.arg)

\* C4 (amended): the same, for a request that does not begin with an
\* excluded prefix, that is absolute or whose first component exists as
\* spelled, and whose on-disk directories from the parent of the first
\* mismatched component downward can be opened, on an unchanging filesystem.
C4_MultiLevelRepair ==
    (/\ Called
     /\ HasUniqueTwin(last.arg)
     /\ ~UnderExcludedPrefix(last.arg)
     /\ (IsAbsolute(last.arg) \/ 1 \notin Mismatched(last.arg))
     /\ ScannedDirsOpen(last.arg))
        => last.ret = OnDiskSpelling(last.arg)

\* a request mismatched in an ancestor and in the leaf was repaired at both
C4_Witness ==
    /\ Called
    /\ HasUniqueTwin(last.arg)
    /\ ~UnderExcludedPrefix(last.arg)
    /\ Cardinality(Mismatched(last.arg)) >= 2
    /\ Len(Components[last.arg]) \in Mismatched(last.arg)
    /\ last.depth >= 1
    /\ last.how = "match"
    /\ last.ret = OnDiskSpelling(last.arg)

----------------------------------------------------------------------------
(* C5 *)

\* C5: when the directory scan for a non-existing path ends without a match,
\* because the directory holds no match or because it cannot be opened, the
\* call returns exactly the path it was given.
C5_NoMatchReturnsInput ==
    (Called /\ last.how \in {"nomatch", "openfail"}) => last.ret = last.arg

\* a scan ended without a match in a directory reached through a repaired
\* parent
C5_Witness ==
    /\ Called
    /\ last.how = "nomatch"
    /\ ~file_exists_real(parent_path(last.arg))
    /\ last.depth >= 1
    /\ last.ret = last.arg

----------------------------------------------------------------------------
(* C6 *)

\* C6: idempotence: resolving the result of a call again, with the
\* filesystem unchanged and the cache as the earlier calls left it, returns
\* that same result.
C6_Idempotent ==
    last.again => last.ret = last.arg

\* a rewritten result was resolved again
C6_Witness ==
    /\ last.again
    /\ last.from # last.arg
    /\ last.ret = last.arg

----------------------------------------------------------------------------
(* C7 *)

AllDone == \A t \in Threads : ~Running(t)

\* what one thread alone, starting from an empty cache, makes of the path
SingleThreaded(path) == replace_filename_case_insensitive(EmptyCache, path)

\* every thread got the result of the single-threaded resolution
ResultsAgree ==
    AllDone => \A t \in Threads : result[t] = SingleThreaded(request).ret

\* C7 as claimed: when the threads all resolve the same uncached path, which
\* a directory scan resolves, each gets the single-threaded result and the
\* cache ends with an entry for that path, mapping to that result.
C7_AsClaimed ==
    (AllDone /\ SingleThreaded(request).how = "match")
        => /\ \A t \in Threads : result[t] = SingleThreaded(request).ret
           /\ CacheHas(cache, request)
           /\ cache[request] = SingleThreaded(request).ret

----------------------------------------------------------------------------
(* C8 *)

\* C8: for the empty path, the null path and the root "/" the call returns
\* its input and makes no stat call, opens no directory and enters no cache
\* critical section; the cache is left as it was.
C8_TrivialInputsUntouched ==
    [][ (last' # last /\ last'.arg \in { <<>>, Null, <<"/">> })
          => /\ last'.ret = last'.arg
             /\ last'.nstat = 0
             /\ last'.nopen = 0
             /\ last'.ncache = 0
             /\ cache' = cache ]_vars

\* the root was resolved after an earlier call had filled the cache
C8_Witness ==
    /\ Called
    /\ last.arg = <<"/">>
    /\ last.ret = <<"/">>
    /\ last.nstat = 0
    /\ cache # EmptyCache

----------------------------------------------------------------------------
(* C9 *)

\* the number of components of the requested path (none for the null path)
NumComponents(path) == IF path = Null THEN 0 ELSE Len(Components[path])

\* the nesting of a thread's calls is at most the number of components, and
\* each nested call is given a strictly shorter path
RecursionBounded ==
    \A t \in Threads :
        /\ Len(stack[t]) <= NumComponents(request) + 1
        /\ \A i \in 2..Len(stack[t]) :
               Len(stack[t][i].path) < Len(stack[t][i - 1].path)

\* a call that has returned has returned a path: the null path only for the
\* null path, the empty path only for the empty path
ResultValid ==
    \A t \in Threads :
        ~Running(t) => /\ result[t] # Pending
                       /\ (request # Null => result[t] # Null)
                       /\ (request # Null /\ request # <<>> => result[t] # <<>>)

\* C9: every call terminates and returns a path, never null or empty for a
\* non-null, non-empty input; the recursion on the parent strictly shortens
\* the path and is at most as deep as the path has components.
C9_Total ==
    /\ [](RecursionBounded /\ ResultValid)
    /\ <>AllDone

\* the recursion of a call went down to the empty path, as deep as the
\* path has components
C9_Witness ==
    \E t \in Threads :
        /\ Running(t)
        /\ Len(stack[t]) = NumComponents(request) + 1
        /\ Len(stack[t]) >= 3
        /\ Top(t).path = <<>>

----------------------------------------------------------------------------
(* C10 *)

\* C10: on an unchanging filesystem the result is the input itself or a path
\* that exists on disk and equals the input component by component under
\* lower-casing, also when the result comes from the cache.
C10_ResultIsInputOrTwin ==
    Called => \/ last.ret = last.arg
              \/ /\ file_exists_real(last.ret)
                 /\ SameFold(last.ret, last.arg)

\* a rewritten result came from the cache
C10_Witness ==
    /\ Called
    /\ last.how = "hit"
    /\ last.ret # last.arg
    /\ file_exists_real(last.ret)
    /\ SameFold(last.ret, last.arg)

----------------------------------------------------------------------------
(* C11 *)

\* the on-disk nodes that equal the path component by component under
\* lower-casing
FoldTwins(path) ==
    IF path = Null \/ Len(Components[path]) = 0 THEN {}
    ELSE { n \in files : /\ Len(n) = Len(cwd) + Len(Components[path])
                         /\ FoldSeq(SubSeq(n, Len(cwd) + 1, Len(n)))
                                = FoldSeq(Components[path]) }

\* C11 as claimed: whenever some on-disk path differs from the requested
\* non-excluded path only in letter case, the result is an on-disk path that
\* differs from the request only in letter case, in every directory layout.
C11_AsClaimed ==
    (Called /\ ~UnderExcludedPrefix(last.arg) /\ FoldTwins(last.arg) # {})
        => /\ file_exists_real(last.ret)
           /\ SameFold(last.ret, last.arg)

\* the components of the path but the last
Ancestors(path) == SubSeq(Components[path], 1, Len(Components[path]) - 1)

\* the on-disk directory of the path, found by taking at every ancestor level
\* the one entry that folds to the component's lower-cased name
AncestorTwin(path) == TwinFrom(IF IsAbsolute(path) THEN Root ELSE cwd, Ancestors(path))

\* every ancestor level has exactly one candidate and the directory so
\* reached holds at least one candidate for the last component
UniqueAncestors(path) ==
    /\ path # Null
    /\ Len(Components[path]) > 0
    /\ AncestorTwin(path).ok
    /\ Candidates(AncestorTwin(path).node, filename(path)) # {}

\* the ancestor levels at which the request is spelled differently from the
\* disk
AncestorsMismatched(path) ==
    LET node == AncestorTwin(path).node
        base == Len(node) - Len(Ancestors(path))
    IN  { k \in 1..Len(Ancestors(path)) : Ancestors(path)[k] # node[base + k] }

\* the request exists as spelled, or every on-disk directory from the parent
\* of its first mismatched component downward can be opened
ScansCanOpen(path) ==
    LET node == AncestorTwin(path).node
        base == Len(node) - Len(Ancestors(path))
    IN  \/ file_exists_real(path)
        \/ \A k \in 1..Len(Components[path]) :
               (k = Len(Components[path]) \/ \E j \in AncestorsMismatched(path) : j <= k)
                   => SubSeq(node, 1, base + k - 1) \notin noopen

\* the first component of a relative request exists as spelled
RelativeStartsExact(path) ==
    IsAbsolute(path) \/ Append(cwd, Components[path][1]) \in files

\* C11 (amended): whenever some on-disk path differs from the requested
\* non-excluded path only in letter case, every ancestor level has exactly
\* one candidate (the last level may have several), the request is absolute
\* or its first component exists as spelled, and the directories to scan can
\* be opened, the result is an on-disk path that differs from the request
\* only in letter case, on an unchanging filesystem.
C11_RepairWithUniqueAncestors ==
    (/\ Called
     /\ ~UnderExcludedPrefix(last.arg)
     /\ UniqueAncestors(last.arg)
     /\ RelativeStartsExact(last.arg)
     /\ ScansCanOpen(last.arg))
        => /\ file_exists_real(last.ret)
           /\ SameFold(last.ret, last.arg)

\* a request with a mis-cased ancestor was resolved by a scan of a directory
\* that holds two candidates for the last component
C11_Witness ==
    /\ Called
    /\ ~UnderExcludedPrefix(last.arg)
    /\ UniqueAncestors(last.arg)
    /\ RelativeStartsExact(last.arg)
    /\ ScansCanOpen(last.arg)
    /\ AncestorsMismatched(last.arg) # {}
    /\ Cardinality(Candidates(AncestorTwin(last.arg).node, filename(last.arg))) >= 2
    /\ last.how = "match"
    /\ file_exists_real(last.ret)
    /\ SameFold(last.ret, last.arg)

----------------------------------------------------------------------------
(* C12 *)

\* C12 as claimed: when a call finds its match by a directory scan, the
\* cache afterwards holds an entry whose key is the path the call was given,
\* mapping to the result, also when an ancestor of the path was repaired.
C12_AsClaimed ==
    (Called /\ last.how = "match")
        => /\ CacheHas(cache, last.arg)
           /\ cache[last.arg] = last.ret

----------------------------------------------------------------------------
(* C13 *)

\* p as the step just taken rebuilt it on the recursively resolved parent,
\* computed with the cache the call started from
RepairedRequest ==
    RepairedPath(last'.arg,
                 replace_filename_case_insensitive(cache, parent_path(last'.arg)).ret)

\* the step was a call whose parent was repaired by the recursion and whose
\* scan of the repaired directory ended without a match
NoMatchBelowRepairedParent ==
    /\ last'.how = "nomatch"
    /\ NeedsParent(last'.arg)
    /\ RepairedRequest # last'.arg

\* C13 as claimed: when the parent was repaired by the recursive step and the
\* repaired directory holds no match for the filename, the call returns the
\* parent-repaired path.
C13_AsClaimed ==
    [][ NoMatchBelowRepairedParent => last'.ret = RepairedRequest ]_vars

\* C13 (amended): in that case the call returns the path it was given, not
\* the parent-repaired path.
C13_NoMatchKeepsInput ==
    [][ NoMatchBelowRepairedParent
          => /\ last'.ret = last'.arg
             /\ last'.ret # RepairedRequest ]_vars

\* a call whose parent the recursion repaired by a scan of its own ended
\* without a match and returned the path it was given
C13_Witness ==
    /\ Called
    /\ last.how = "nomatch"
    /\ NeedsParent(last.arg)
    /\ last.depth >= 1
    /\ last.nopen >= 2
    /\ file_exists_real(SingleThreaded(parent_path(last.arg)).ret)
    /\ last.ret = last.arg

----------------------------------------------------------------------------
(* C14 *)

\* the positions, in the order readdir yields the entries of the directory,
\* of the entries other than "." and ".." whose lower-cased name equals the
\* lower-cased name nm
MatchingPositions(dir, nm) ==
    { i \in 1..Len(readdir(dir)) :
        /\ readdir(dir)[i] \notin {Dot, DotDot}
        /\ transform_tolower(readdir(dir)[i]) = transform_tolower(nm) }

\* the entry at the earliest of these positions
EarliestMatch(dir, nm) ==
    readdir(dir)[CHOOSE i \in MatchingPositions(dir, nm) :
                    \A j \in MatchingPositions(dir, nm) : i <= j]

\* C14: a call that ends with a match of its directory scan returns the
\* directory joined with the earliest entry, in enumeration order, whose
\* lower-cased name equals the lower-cased requested name; "." and ".." are
\* never the matched entry, whether the result comes from a scan or from the
\* cache.
C14_FirstInEnumerationOrder ==
    /\ (Called /\ last.how = "match")
          => /\ MatchingPositions(parent_path(last.ret), filename(last.arg)) # {}
             /\ filename(last.ret)
                  = EarliestMatch(parent_path(last.ret), filename(last.arg))
    /\ (Called /\ last.how \in {"match", "hit"})
          => filename(last.ret) \notin {Dot, DotDot}
    /\ (Called /\ last.arg # Null /\ filename(last.arg) \in {Dot, DotDot})
          => last.how # "match"

\* a scan of a directory holding two entries that fold to the requested name
\* returned the earlier of them, which is not the one the request spells
C14_Witness ==
    /\ Called
    /\ last.how = "match"
    /\ Cardinality(MatchingPositions(parent_path(last.ret), filename(last.arg))) >= 2
    /\ filename(last.ret) = EarliestMatch(parent_path(last.ret), filename(last.arg))
    /\ filename(last.ret) # filename(last.arg)

----------------------------------------------------------------------------
(* C15 *)

\* the thread is at cache.find or at the cache insert, in its outermost call
\* or in a recursive one
InCacheSection(t) == At(t, "find") \/ At(t, "put")

\* C15: a thread that reads or writes the cache map holds the cache mutex,
\* at most one thread is inside a cache critical section at a time, and the
\* map changes only in a step of the thread that holds the mutex, in every
\* interleaving of the concurrent calls and their recursive calls.
C15_CacheUnderMutex ==
    /\ [](\A t \in Threads : InCacheSection(t) => mutex = t)
    /\ [](\A t, u \in Threads : (InCacheSection(t) /\ InCacheSection(u)) => t = u)
    /\ [][cache' # cache => (mutex \in Threads /\ At(mutex, "put") /\ mutex' = 0)]_vars

\* one thread is inserting into the cache from a recursive call while
\* another waits for the mutex
C15_Witness ==
    \E t, u \in Threads :
        /\ t # u
        /\ At(t, "put")
        /\ mutex = t
        /\ Len(stack[t]) >= 2
        /\ At(u, "lock") \/ At(u, "lock_put")

----------------------------------------------------------------------------
(* C16 *)

\* C16 as claimed: in every interleaving of the threads' first intercepted
\* calls at most one Wrapper is constructed and all threads use the same one,
\* hence the same cache.
C16_AsClaimed ==
    /\ Len(instances) <= 1
    /\ \A t, u \in Threads :
           (getter[t].pc \in {"call", "done"} /\ getter[u].pc \in {"call", "done"})
               => getter[t].inst = getter[u].inst

----------------------------------------------------------------------------
(* C17 *)

\* C17 as claimed: once the cache holds an entry, every later state holds
\* the same entry: no call removes the key or replaces its value with a
\* different one, also when the directory contents change after the entry
\* was inserted.
C17_AsClaimed ==
    [][ \A k \in DOMAIN cache : CacheHas(cache', k) /\ cache'[k] = cache[k] ]_vars

----------------------------------------------------------------------------
(* C18 *)

\* the next step of the thread is an existence check, a recursive call, a
\* directory open or a directory enumeration
AtFilesystemOrRecursion(t) ==
    Running(t) /\ Top(t).pc \in {"stat", "parent", "after_rec", "opendir", "scan"}

\* the thread waits for the cache mutex
AtLock(t) == At(t, "lock") \/ At(t, "lock_put")

\* C18: the thread that holds the cache mutex is at the lookup or at the
\* insert; a step that is an existence check, a recursive call, a directory
\* open or an enumeration is taken by a thread that does not hold the mutex;
\* no thread waits for a mutex it holds; and with every thread scheduled
\* fairly all calls return.
C18_MutexOnlyAroundCache ==
    /\ [](\A t \in Threads : mutex = t => InCacheSection(t))
    /\ [](\A t \in Threads : AtLock(t) => mutex # t)
    /\ [][\A t \in Threads :
            (AtFilesystemOrRecursion(t) /\ stack'[t] # stack[t]) => mutex # t]_vars
    /\ <>AllDone

\* a thread in a recursive call waits for the mutex that another thread
\* holds for its insert
C18_Witness ==
    \E t, u \in Threads :
        /\ t # u
        /\ Len(stack[t]) >= 2
        /\ At(t, "lock")
        /\ mutex = u
        /\ At(u, "put")

----------------------------------------------------------------------------
(* C19 *)

\* a relative path of one filename component: its parent path is empty
SingleRelativeComponent(path) ==
    /\ path # Null
    /\ ~empty(path)
    /\ ~IsAbsolute(path)
    /\ empty(parent_path(path))

\* C19: for a relative path of a single component that does not exist as
\* given, the call returns the input and leaves the cache as it was,
\* whatever the working directory holds: the empty parent fails the
\* existence check, the one recursive call, on the empty path, returns at
\* once, and the directory open on the empty path fails.
C19_SingleRelativeUnchanged ==
    [][ (SingleRelativeComponent(last'.arg) /\ ~file_exists_real(last'.arg))
          => /\ last'.ret = last'.arg
             /\ cache' = cache
             /\ ~CacheHas(cache', last'.arg)
             /\ last'.how = "openfail"
             /\ last'.depth = 1
             /\ last'.nopen = 1 ]_vars

\* such a call was made in a working directory that holds an entry differing
\* from the request in letter case only
C19_Witness ==
    /\ Called
    /\ SingleRelativeComponent(last.arg)
    /\ ~file_exists_real(last.arg)
    /\ Candidates(cwd, last.arg) # {}
    /\ last.how = "openfail"
    /\ last.ret = last.arg

----------------------------------------------------------------------------
(* C20 *)

\* C20: cache transparency: with the filesystem and the enumeration order
\* unchanged, the result of a call made with the cache that earlier calls
\* have filled equals the result of the same call made with an empty cache.
C20_CacheTransparent ==
    Called => last.ret = replace_filename_case_insensitive(EmptyCache, last.arg).ret

\* a call answered from the cache returned what the recursion and the scan
\* return for it with an empty cache
C20_Witness ==
    /\ Called
    /\ last.how = "hit"
    /\ cache # EmptyCache
    /\ replace_filename_case_insensitive(EmptyCache, last.arg).how = "match"
    /\ last.ret = replace_filename_case_insensitive(EmptyCache, last.arg).ret

====
